---- MODULE Spec2Model ----
(***************************************************************************)
(* A state-machine model of attached_assets/run.py: the weather pipeline   *)
(* that builds sliding windows over per-city daily records, trains a       *)
(* next-day predictor, rolls it forward over April 2025, assembles the     *)
(* forecast table, draws contour maps and answers one interactive lookup.  *)
(*                                                                         *)
(* Real numbers are integers here.  Raw weather values are whole units; a  *)
(* scaled value v in [0,1] is the integer v * Unit (fixed point), and a    *)
(* division rounds down.  City names are sequences of one-character        *)
(* strings so that lower(), strip() and replace() act on characters.       *)
(***************************************************************************)
EXTENDS Integers, Sequences, FiniteSets, TLC

\* ------------------------------------------------------------ constants

\* run.py:57  seq_length = 5
seq_length == 5

\* run.py:55  len(features)
n_features == 5

\* run.py:165  pd.date_range('2025-04-01', '2025-04-30'): 30 dates, the
\* date of index i (0-based) is April i+1.
NDates == 30

\* run.py:410  dates[:5]
NDailyMaps == 5

\* run.py:367 and 421: fewer than 3 points, no contour map
MinMapPoints == 3

\* Fixed-point resolution of a scaled value (MinMaxScaler's [0,1] range).
Unit == 100

\* At most MaxFaults exceptions are injected in one run (an outage of the
\* model, once begun, counts as one).
MaxFaults == 1

\* An exception is injected in a forecast step only at one of the first
\* MaxFaultDate dates of a city.
MaxFaultDate == 3

\* ------------------------------------------------------------ characters

UpperChars == <<"A","B","C","D","E","F","G","H","I","J","K","L","M",
                "N","O","P","Q","R","S","T","U","V","W","X","Y","Z">>

LowerChars == <<"a","b","c","d","e","f","g","h","i","j","k","l","m",
                "n","o","p","q","r","s","t","u","v","w","x","y","z">>

\* str.lower() on one character
LowerChar(ch) ==
    IF \E i \in 1..Len(UpperChars) : UpperChars[i] = ch
    THEN LowerChars[CHOOSE i \in 1..Len(UpperChars) : UpperChars[i] = ch]
    ELSE ch

\* str.lower()
Lower(s) == [i \in 1..Len(s) |-> LowerChar(s[i])]

\* str.strip(): drop the leading and the trailing blanks
Strip(s) ==
    LET nonblank == {i \in 1..Len(s) : s[i] # " "}
    IN  IF nonblank = {} THEN <<>>
        ELSE LET lo == CHOOSE i \in nonblank : \A j \in nonblank : i <= j
                 hi == CHOOSE i \in nonblank : \A j \in nonblank : i >= j
             IN  SubSeq(s, lo, hi)

\* str.replace(' ', '_')
ReplaceBlanks(s) == [i \in 1..Len(s) |-> IF s[i] = " " THEN "_" ELSE s[i]]

\* ------------------------------------------------------------ the data

Bogo == <<"B","o","g","o">>
ElNido == <<"E","l"," ","N","i","d","o">>
Mati == <<"M","a","t","i">>
NAGA == <<"N","A","G","A">>
Naga == <<"N","a","g","a">>

\* The city names of the input file, in the order groupby leaves them
\* (sorted by name, capitals before small letters).
CityNames == <<Bogo, ElNido, Mati, NAGA, Naga>>

\* run.py:207-346  the static table; neither El Nido nor NAGA is in it.
city_coords_table ==
    [c \in {Bogo, Mati, Naga} |->
        IF c = Bogo THEN <<11, 124>> ELSE IF c = Mati THEN <<9, 125>> ELSE <<13, 123>>]

\* The calendar days (of March 2025) on which a city has a daily record.
Ten == 3..12
Six == 7..12
Five == 8..12
Old5 == 1..5
Old10 == 1..10
Gap == (3..12) \ {11}
Three == 10..12
NoDays == {}

\* The input data sets: for each city of CityNames, its days.
DataSets ==
    << <<Ten, NoDays, Ten, NoDays, Ten>>,
       <<Ten, Ten, Five, NoDays, Old5>>,
       <<Five, NoDays, Old5, NoDays, NoDays>>,
       <<Six, NoDays, Three, NoDays, NoDays>>,
       <<Gap, NoDays, Old10, NoDays, NoDays>>,
       <<Three, NoDays, NoDays, NoDays, NoDays>>,
       <<Ten, Six, NoDays, NoDays, NoDays>>,
       <<NoDays, NoDays, NoDays, Six, Ten>> >>

\* One daily record (run.py:39-46): the aggregated values of city c on day d.
DailyRecord(c, d) ==
    [city |-> CityNames[c], datetime |-> d,
     temp |-> 22 + 2 * c + (d % 5),
     rain |-> 3 * ((c + d) % 3),
     wind |-> 2 + ((c + 2 * d) % 4),
     clouds |-> 10 * ((c * d) % 7),
     visibility |-> 8 + (d % 3)]

\* The ascending list of a finite set of integers.
RECURSIVE Ascending(_)
Ascending(S) ==
    IF S = {} THEN <<>>
    ELSE LET m == CHOOSE x \in S : \A z \in S : x <= z
         IN  <<m>> \o Ascending(S \ {m})

RECURSIVE Concat(_)
Concat(ss) == IF ss = <<>> THEN <<>> ELSE Head(ss) \o Concat(Tail(ss))

\* daily_data after run.py:39-46: one row per (city, day), by city then day.
BuildDaily(ds) ==
    Concat([c \in 1..Len(CityNames) |->
              LET days == Ascending(ds[c])
              IN  [k \in 1..Len(days) |-> DailyRecord(c, days[k])]])

\* ------------------------------------------------------------ frame helpers

\* df[df['city_name'] == city]
RowsOf(df, city) == LET T(r) == r.city = city IN SelectSeq(df, T)

\* df['city_name'].unique(): the names in order of first appearance
RECURSIVE Unique(_)
Unique(names) ==
    IF names = <<>> THEN <<>>
    ELSE LET rest == Unique(SubSeq(names, 1, Len(names) - 1))
             last == names[Len(names)]
         IN  IF \E i \in 1..Len(rest) : rest[i] = last THEN rest
             ELSE Append(rest, last)

UniqueCities(df) == Unique([i \in 1..Len(df) |-> df[i].city])

\* sort_values('datetime'): insertion sort, stable
RECURSIVE SortByDate(_)
SortByDate(rows) ==
    IF rows = <<>> THEN <<>>
    ELSE LET sorted == SortByDate(SubSeq(rows, 1, Len(rows) - 1))
             r == rows[Len(rows)]
             before == {i \in 1..Len(sorted) : sorted[i].datetime <= r.datetime}
             k == Cardinality(before)
         IN  SubSeq(sorted, 1, k) \o <<r>> \o SubSeq(sorted, k + 1, Len(sorted))

\* .tail(n)
TailN(rows, n) ==
    IF Len(rows) <= n THEN rows ELSE SubSeq(rows, Len(rows) - n + 1, Len(rows))

\* df[features].values of one row, df[target_cols].values of one row
Features(r) == <<r.temp, r.rain, r.wind, r.clouds, r.visibility>>
Targets(r) == <<r.temp, r.rain>>

SeqSum(s) ==
    LET RECURSIVE Go(_)
        Go(k) == IF k = 0 THEN 0 ELSE s[k] + Go(k - 1)
    IN  Go(Len(s))

\* Series.mean()
Mean(s) == SeqSum(s) \div Len(s)

MinOf(S) == CHOOSE x \in S : \A z \in S : x <= z
MaxOf(S) == CHOOSE x \in S : \A z \in S : x >= z

\* ------------------------------------------------------------ MinMaxScaler

\* MinMaxScaler(): not fitted
NewScaler == [n_fit |-> 0, data_min |-> <<>>, data_max |-> <<>>]

\* scaler.fit(rows): the per-column minimum and maximum of the pooled rows
Fit(scaler, rows, ncols) ==
    [n_fit |-> scaler.n_fit + 1,
     data_min |-> [j \in 1..ncols |-> MinOf({rows[i][j] : i \in 1..Len(rows)})],
     data_max |-> [j \in 1..ncols |-> MaxOf({rows[i][j] : i \in 1..Len(rows)})]]

\* data_range, with sklearn's guard for a constant column
DataRange(scaler, j) ==
    IF scaler.data_max[j] = scaler.data_min[j] THEN 1
    ELSE scaler.data_max[j] - scaler.data_min[j]

\* scaler.transform of one row: (x - min) / (max - min)
Transform(scaler, row) ==
    [j \in 1..Len(row) |->
        ((row[j] - scaler.data_min[j]) * Unit) \div DataRange(scaler, j)]

\* scaler.inverse_transform of one row: x * (max - min) + min
InverseTransform(scaler, row) ==
    [j \in 1..Len(row) |->
        (row[j] * DataRange(scaler, j)) \div Unit + scaler.data_min[j]]

TransformRows(scaler, rows) == [i \in 1..Len(rows) |-> Transform(scaler, rows[i])]

\* ------------------------------------------------------------ the predictor

\* The trained network is a black box (run.py:110-127, 145): predict maps a
\* scaled window to a scaled (temperature, rainfall) pair.  Two stand-ins:
\* one drifts warmer and drier until the raw value leaves [0,50] upward and
\* the rainfall goes negative, one drifts colder (below 0) and wetter.
Models == {"warming", "cooling"}

\* model.predict(model_input)[0]
ModelPredict(m, seq) ==
    IF m = "warming"
    THEN <<seq[seq_length][1] + 2 * Unit, seq[1][2] - Unit>>
    ELSE <<seq[seq_length][1] - Unit, seq[seq_length][2] + seq[seq_length][3] \div 4>>

\* Python's max(a, b) and min(a, b)
PyMax(a, b) == IF b > a THEN b ELSE a
PyMin(a, b) == IF b < a THEN b ELSE a

\* last_sequence.shape == (seq_length, n_features)
ShapeOk(seq) ==
    /\ Len(seq) = seq_length
    /\ \A i \in 1..Len(seq) : Len(seq[i]) = n_features

\* Without the clamps.
PredictNextDayNoClamp(st, m, seq) == InverseTransform(st, ModelPredict(m, seq))

\* run.py:141-151  predict_next_day, past its shape check: [temp, rain]
PredictNextDay(st, m, seq) ==
    LET prediction == InverseTransform(st, ModelPredict(m, seq))
    IN  <<PyMax(0, PyMin(50, prediction[1])), PyMax(0, prediction[2])>>

\* ------------------------------------------------------------ the state

VARIABLES
    pc,                 \* where the script is
    daily_data,         \* run.py:39-46
    scaler_features,    \* run.py:52
    scaler_targets,     \* run.py:53
    scaled,             \* some transform or inverse transform has been made
    X, y,               \* run.py:62, the windows and their targets
    ci,                 \* position of the running city loop (1-based)
    model,              \* run.py:110, "none" until trained
    cities_with_complete_data,  \* run.py:153
    last_7_days,        \* run.py:161
    forecast,           \* run.py:164, one {'temp','rain'} entry per listed city
    produced,           \* run.py:175-180, per listed city: the `date` of the loop
                        \* turn in which each entry of forecast was appended
    city_data,          \* run.py:168
    current_sequence,   \* run.py:173 and 185
    di,                 \* position of the date loop (dates done, 0-based index)
    skips,              \* the "Skipping ..." diagnostics printed (stage, city)
    errors,             \* the "Error predicting ..." diagnostics printed
    faults,             \* exceptions injected so far
    modelDown,          \* the predictor fails on every call from now on
    forecast_data,      \* run.py:190, the rows of forecast_df
    city_coords,        \* run.py:207, with the (0,0) defaults of run.py:352
    avg_forecast,       \* run.py:354
    mi,                 \* position of the daily map loop (0-based index)
    map_log,            \* the maps attempted or skipped, in order
    lookup              \* what get_city_forecast did

vars == <<pc, daily_data, scaler_features, scaler_targets, scaled, X, y, ci,
          model, cities_with_complete_data, last_7_days, forecast, produced, city_data,
          current_sequence, di, skips, errors, faults, modelDown,
          forecast_data, city_coords, avg_forecast, mi, map_log, lookup>>

\* The variables of the reporting stage.
report_vars == <<forecast_data, city_coords, avg_forecast, mi, map_log, lookup>>

\* get_city_forecast has not run.
NoLookup == [status |-> "none"]

\* The state after run.py:1-57: the data is loaded and aggregated, the
\* scalers exist and are not fitted.
Init ==
    /\ pc = "create_sequences"
    /\ \E k \in 1..Len(DataSets) : daily_data = BuildDaily(DataSets[k])
    /\ scaler_features = NewScaler
    /\ scaler_targets = NewScaler
    /\ scaled = FALSE
    /\ X = <<>>
    /\ y = <<>>
    /\ ci = 0
    /\ model = "none"
    /\ cities_with_complete_data = <<>>
    /\ last_7_days = <<>>
    /\ forecast = <<>>
    /\ produced = <<>>
    /\ city_data = <<>>
    /\ current_sequence = <<>>
    /\ di = 0
    /\ skips = {}
    /\ errors = <<>>
    /\ faults = 0
    /\ modelDown = FALSE
    /\ forecast_data = <<>>
    /\ city_coords = city_coords_table
    /\ avg_forecast = <<>>
    /\ mi = 0
    /\ map_log = <<>>
    /\ lookup = NoLookup

\* ------------------------------------------------------------ create_sequences

\* run.py:59-67  entry of create_sequences: both scalers are fitted on the
\* pooled rows of every city.
FitScalers ==
    /\ pc = "create_sequences"
    /\ scaler_features' =
         Fit(scaler_features, [i \in 1..Len(daily_data) |-> Features(daily_data[i])],
             n_features)
    /\ scaler_targets' =
         Fit(scaler_targets, [i \in 1..Len(daily_data) |-> Targets(daily_data[i])], 2)
    /\ ci' = 1
    /\ pc' = "sequences"
    /\ UNCHANGED <<report_vars, daily_data, scaled, X, y, model, cities_with_complete_data,
                   last_7_days, forecast, produced, city_data, current_sequence, di, skips,
                   errors, faults, modelDown>>

\* run.py:84-85  the windows of one city's scaled rows
CityWindows(data_array) ==
    [i \in 1..(Len(data_array) - seq_length) |->
        SubSeq(data_array, i, i + seq_length - 1)]

\* The target is the last day of the window, not the day after it.
CityTargetsLastDay(target_array) ==
    [i \in 1..(Len(target_array) - seq_length) |-> target_array[i + seq_length - 1]]

\* run.py:84,86  the targets of one city's scaled rows
CityTargets(target_array) ==
    [i \in 1..(Len(target_array) - seq_length) |-> target_array[i + seq_length]]

\* run.py:77  the city has too few rows for a window
TooShort(rows) == Len(rows) <= seq_length

\* run.py:69-86  one turn of the city loop of create_sequences
SequenceCity ==
    /\ pc = "sequences"
    /\ ci <= Len(UniqueCities(daily_data))
    /\ LET city == UniqueCities(daily_data)[ci]
           rows == SortByDate(RowsOf(daily_data, city))
       IN  IF TooShort(rows)
           THEN /\ skips' = skips \cup {<<"build", city>>}
                /\ UNCHANGED <<X, y, scaled>>
           ELSE /\ X' = X \o CityWindows(TransformRows(scaler_features,
                                 [i \in 1..Len(rows) |-> Features(rows[i])]))
                /\ y' = y \o CityTargets(TransformRows(scaler_targets,
                                 [i \in 1..Len(rows) |-> Targets(rows[i])]))
                /\ scaled' = TRUE
                /\ UNCHANGED skips
    /\ ci' = ci + 1
    /\ UNCHANGED <<report_vars, pc, daily_data, scaler_features, scaler_targets, model,
                   cities_with_complete_data, last_7_days, forecast, produced, city_data,
                   current_sequence, di, errors, faults, modelDown>>

\* The error is also raised when some city was skipped.
NoSequencesOrSkipped(xs, ys) == xs = <<>> \/ ys = <<>> \/ skips # {}

\* run.py:88  not X or not y
NoSequences(xs, ys) == xs = <<>> \/ ys = <<>>

\* run.py:88-95, 101  the end of create_sequences: ValueError when nothing
\* was built (the script dies), else X and y are returned.
SequencesDone ==
    /\ pc = "sequences"
    /\ ci > Len(UniqueCities(daily_data))
    /\ pc' = IF NoSequences(X, y) THEN "died_no_sequences" ELSE "train"
    /\ UNCHANGED <<report_vars, daily_data, scaler_features, scaler_targets, scaled, X, y, ci,
                   model, cities_with_complete_data, last_7_days, forecast, produced,
                   city_data, current_sequence, di, skips, errors, faults, modelDown>>

\* run.py:103  train_size = int(len(X) * 0.8)
TrainSize(xs) == (Len(xs) * 8) \div 10

\* run.py:103-138  the network is built and trained on the windows.
Train ==
    /\ pc = "train"
    /\ \E m \in Models : model' = m
    /\ pc' = "select"
    /\ UNCHANGED <<report_vars, daily_data, scaler_features, scaler_targets, scaled, X, y, ci,
                   cities_with_complete_data, last_7_days, forecast, produced, city_data,
                   current_sequence, di, skips, errors, faults, modelDown>>

\* run.py:104, 120-127  with a single window the training part is empty;
\* a fit that refuses an empty input raises and the script dies (a fit that
\* accepts it is Train).
TrainRaises ==
    /\ pc = "train"
    /\ TrainSize(X) = 0
    /\ pc' = "died_in_fit"
    /\ UNCHANGED <<report_vars, daily_data, scaler_features, scaler_targets, scaled, X, y, ci,
                   model, cities_with_complete_data, last_7_days, forecast, produced, city_data,
                   current_sequence, di, skips, errors, faults, modelDown>>

\* ------------------------------------------------------------ the forecast

\* More than seq_length records are asked for, as create_sequences does.
CompleteCitiesStrict(df) ==
    LET names == UniqueCities(df)
        T(c) == Len(RowsOf(df, c)) > seq_length
    IN  SelectSeq(names, T)

\* run.py:153-154
CompleteCities(df) ==
    LET names == UniqueCities(df)
        T(c) == Len(RowsOf(df, c)) >= seq_length
    IN  SelectSeq(names, T)

\* run.py:159-162
Last7Days(df, listed) ==
    LET last_date == MaxOf({df[i].datetime : i \in 1..Len(df)})
        start_date == last_date - (seq_length - 1)
        T(r) == /\ r.datetime >= start_date
                /\ \E k \in 1..Len(listed) : listed[k] = r.city
    IN  SelectSeq(df, T)

\* run.py:153-165  the cities to forecast, the recent rows, the empty forecast
SelectCities ==
    /\ pc = "select"
    /\ LET listed == CompleteCities(daily_data)
       IN  /\ cities_with_complete_data' = listed
           /\ IF listed = <<>>
              THEN /\ pc' = "died_no_cities"
                   /\ UNCHANGED <<last_7_days, forecast, ci>>
                   /\ produced' = <<>>
              ELSE /\ last_7_days' = Last7Days(daily_data, listed)
                   /\ forecast' = [k \in 1..Len(listed) |-> [temp |-> <<>>, rain |-> <<>>]]
                   /\ produced' = [k \in 1..Len(listed) |-> <<>>]
                   /\ ci' = 1
                   /\ pc' = "city"
    /\ UNCHANGED <<report_vars, daily_data, scaler_features, scaler_targets, scaled, X, y,
                   model, city_data, current_sequence, di, skips, errors, faults,
                   modelDown>>

\* The city filter is forgotten: the window is cut from every city's rows.
RecentRowsAnyCity(df, city) == TailN(SortByDate(df), seq_length)

\* run.py:168
RecentRows(df, city) == TailN(SortByDate(RowsOf(df, city)), seq_length)

\* fit_transform in place of transform: the feature scaler is fitted again
\* on the window of each city.
EnterCityRefit ==
    /\ pc = "city"
    /\ ci <= Len(cities_with_complete_data)
    /\ LET rows == RecentRows(last_7_days, cities_with_complete_data[ci])
           feats == [i \in 1..Len(rows) |-> Features(rows[i])]
       IN  /\ city_data' = rows
           /\ IF Len(rows) < seq_length
              THEN /\ skips' = skips \cup {<<"forecast", cities_with_complete_data[ci]>>}
                   /\ ci' = ci + 1
                   /\ UNCHANGED <<pc, current_sequence, di, scaled, scaler_features>>
              ELSE /\ scaler_features' = Fit(scaler_features, feats, n_features)
                   /\ current_sequence' = TransformRows(scaler_features', feats)
                   /\ scaled' = TRUE
                   /\ di' = 0
                   /\ pc' = "step"
                   /\ UNCHANGED <<skips, ci>>
    /\ UNCHANGED <<report_vars, daily_data, scaler_targets, X, y, model,
                   cities_with_complete_data, last_7_days, forecast, produced, errors,
                   faults, modelDown>>

\* run.py:167-173  the head of one turn of the city loop: the city's recent
\* rows; too few and the city is skipped, else its window is scaled.
EnterCity ==
    /\ pc = "city"
    /\ ci <= Len(cities_with_complete_data)
    /\ LET rows == RecentRows(last_7_days, cities_with_complete_data[ci])
       IN  /\ city_data' = rows
           /\ IF Len(rows) < seq_length
              THEN /\ skips' = skips \cup {<<"forecast", cities_with_complete_data[ci]>>}
                   /\ ci' = ci + 1
                   /\ UNCHANGED <<pc, current_sequence, di, scaled>>
              ELSE /\ current_sequence' =
                        TransformRows(scaler_features,
                                      [i \in 1..Len(rows) |-> Features(rows[i])])
                   /\ scaled' = TRUE
                   /\ di' = 0
                   /\ pc' = "step"
                   /\ UNCHANGED <<skips, ci>>
    /\ UNCHANGED <<report_vars, daily_data, scaler_features, scaler_targets, X, y, model,
                   cities_with_complete_data, last_7_days, forecast, produced, errors,
                   faults, modelDown>>

\* run.py:175  the date loop moves on; after the last date, the next city.
NextDate ==
    /\ di' = di + 1
    /\ IF di + 1 = NDates
       THEN pc' = "city" /\ ci' = ci + 1
       ELSE UNCHANGED <<pc, ci>>

\* An exception may be injected in this step.
MayFault == faults < MaxFaults /\ di < MaxFaultDate /\ ~modelDown

\* The auxiliary features are those of the last observed day, not the means.
NewRowLastDay(sf, rows, temp, rain) ==
    Transform(sf, <<temp, rain, rows[Len(rows)].wind, rows[Len(rows)].clouds,
                    rows[Len(rows)].visibility>>)

\* run.py:181-184  the new synthetic day, scaled
NewRow(sf, rows, temp, rain) ==
    Transform(sf, <<temp, rain,
                    Mean([i \in 1..Len(rows) |-> rows[i].wind]),
                    Mean([i \in 1..Len(rows) |-> rows[i].clouds]),
                    Mean([i \in 1..Len(rows) |-> rows[i].visibility])>>)

\* run.py:185  np.vstack([current_sequence[1:], new_row])
Slide(seq, new_row) == Append(Tail(seq), new_row)

\* run.py:186-188  the diagnostic of a caught exception
LogError == errors' = Append(errors, [city |-> cities_with_complete_data[ci], date |-> di + 1])

\* run.py:176-185  one date of one city, nothing raised: the prediction is
\* recorded, the synthetic day is appended to the window.
StepOk ==
    /\ pc = "step"
    /\ ~modelDown
    /\ ShapeOk(current_sequence)
    /\ LET prediction == PredictNextDay(scaler_targets, model, current_sequence)
       IN  /\ forecast' = [forecast EXCEPT
                 ![ci].temp = Append(@, prediction[1]),
                 ![ci].rain = Append(@, prediction[2])]
           /\ current_sequence' =
                Slide(current_sequence,
                      NewRow(scaler_features, city_data, prediction[1], prediction[2]))
    /\ produced' = [produced EXCEPT ![ci] = Append(@, di + 1)]
    /\ scaled' = TRUE
    /\ NextDate
    /\ UNCHANGED <<report_vars, daily_data, scaler_features, scaler_targets, X, y, model,
                   cities_with_complete_data, last_7_days, city_data, skips,
                   errors, faults, modelDown>>

\* run.py:142-145, 186-188  the shape check or model.predict raises: caught.
\* The predictor may also break for good here.
StepPredictRaises ==
    /\ pc = "step"
    /\ \/ /\ modelDown \/ ~ShapeOk(current_sequence)
          /\ UNCHANGED <<faults, modelDown>>
       \/ /\ MayFault
          /\ faults' = faults + 1
          /\ modelDown' \in BOOLEAN
    /\ LogError
    /\ NextDate
    /\ UNCHANGED <<report_vars, daily_data, scaler_features, scaler_targets, scaled, X, y,
                   model, cities_with_complete_data, last_7_days, forecast, produced,
                   city_data, current_sequence, skips>>

\* run.py:148, 186-188  scaler_targets.inverse_transform raises: caught.
StepInverseRaises ==
    /\ pc = "step"
    /\ ShapeOk(current_sequence)
    /\ MayFault
    /\ faults' = faults + 1
    /\ LogError
    /\ NextDate
    /\ UNCHANGED <<report_vars, daily_data, scaler_features, scaler_targets, scaled, X, y,
                   model, cities_with_complete_data, last_7_days, forecast, produced,
                   city_data, current_sequence, skips, modelDown>>

\* run.py:179-181, 186-188  scaler_features.transform of the new day raises:
\* caught, after the prediction was appended to the forecast.
StepRescaleRaises ==
    /\ pc = "step"
    /\ ShapeOk(current_sequence)
    /\ MayFault
    /\ faults' = faults + 1
    /\ LET prediction == PredictNextDay(scaler_targets, model, current_sequence)
       IN  forecast' = [forecast EXCEPT
               ![ci].temp = Append(@, prediction[1]),
               ![ci].rain = Append(@, prediction[2])]
    /\ produced' = [produced EXCEPT ![ci] = Append(@, di + 1)]
    /\ scaled' = TRUE
    /\ LogError
    /\ NextDate
    /\ UNCHANGED <<report_vars, daily_data, scaler_features, scaler_targets, X, y, model,
                   cities_with_complete_data, last_7_days, city_data,
                   current_sequence, skips, modelDown>>

\* run.py:167  the city loop is over.
CitiesDone ==
    /\ pc = "city"
    /\ ci > Len(cities_with_complete_data)
    /\ pc' = "assemble"
    /\ UNCHANGED <<report_vars, daily_data, scaler_features, scaler_targets, scaled, X, y, ci,
                   model, cities_with_complete_data, last_7_days, forecast, produced,
                   city_data, current_sequence, di, skips, errors, faults, modelDown>>

\* ------------------------------------------------------------ the forecast table

\* The last prediction of every city is left out.
ForecastRowsShort(listed, fc) ==
    Concat([d \in 1..NDates |->
              Concat([k \in 1..Len(fc) |->
                        IF d < Len(fc[k].temp)
                        THEN << [date |-> d, city |-> listed[k],
                                 temp |-> fc[k].temp[d], rain |-> fc[k].rain[d]] >>
                        ELSE <<>>])])

\* run.py:190-200  one row per date index and city that has a prediction at
\* that index, by date then city.
ForecastRows(listed, fc) ==
    Concat([d \in 1..NDates |->
              Concat([k \in 1..Len(fc) |->
                        IF d - 1 < Len(fc[k].temp)
                        THEN << [date |-> d, city |-> listed[k],
                                 temp |-> fc[k].temp[d], rain |-> fc[k].rain[d]] >>
                        ELSE <<>>])])

\* run.py:190-204
AssembleForecast ==
    /\ pc = "assemble"
    /\ forecast_data' = ForecastRows(cities_with_complete_data, forecast)
    /\ pc' = "averages"
    /\ UNCHANGED <<daily_data, scaler_features, scaler_targets, scaled, X, y, ci,
                   model, cities_with_complete_data, last_7_days, forecast, produced,
                   city_data, current_sequence, di, skips, errors, faults,
                   modelDown, city_coords, avg_forecast, mi, map_log, lookup>>

\* run.py:348-352  the table with (0,0) for each forecast city it lacks
WithDefaults(table, listed) ==
    [c \in DOMAIN table \cup {listed[k] : k \in 1..Len(listed)} |->
        IF c \in DOMAIN table THEN table[c] ELSE <<0, 0>>]

\* run.py:354-362  the averages of the cities that have a prediction
Averages(listed, fc, coords) ==
    Concat([k \in 1..Len(fc) |->
              IF listed[k] \in DOMAIN coords /\ Len(fc[k].temp) > 0
              THEN << [city |-> listed[k],
                       avg_temp |-> SeqSum(fc[k].temp) \div Len(fc[k].temp),
                       avg_rain |-> SeqSum(fc[k].rain) \div Len(fc[k].rain),
                       lat |-> coords[listed[k]][1],
                       lon |-> coords[listed[k]][2]] >>
              ELSE <<>>])

\* run.py:348-364
ComputeAverages ==
    /\ pc = "averages"
    /\ city_coords' = WithDefaults(city_coords, cities_with_complete_data)
    /\ avg_forecast' = Averages(cities_with_complete_data, forecast, city_coords')
    /\ pc' = "heatmaps"
    /\ UNCHANGED <<daily_data, scaler_features, scaler_targets, scaled, X, y, ci,
                   model, cities_with_complete_data, last_7_days, forecast, produced,
                   city_data, current_sequence, di, skips, errors, faults,
                   modelDown, forecast_data, mi, map_log, lookup>>

\* ------------------------------------------------------------ the contour maps

\* Everything the map stage leaves alone.
UnchangedByMaps ==
    UNCHANGED <<daily_data, scaler_features, scaler_targets, scaled, X, y, ci,
                model, cities_with_complete_data, last_7_days, forecast, produced,
                city_data, current_sequence, di, skips, errors, modelDown,
                forecast_data, city_coords, avg_forecast, lookup>>

MapEntry(name, date, points, outcome) ==
    [map |-> name, date |-> date, points |-> points, outcome |-> outcome]

\* run.py:367  too few averaged cities for any map
TooFewForMaps(avg) == Len(avg) < MinMapPoints

\* run.py:367-368  no map at all: the diagnostic, then on to the lookup.
HeatmapsSkipped ==
    /\ pc = "heatmaps"
    /\ TooFewForMaps(avg_forecast)
    /\ map_log' = Append(map_log, MapEntry("all", 0, Len(avg_forecast), "skipped"))
    /\ pc' = "lookup"
    /\ UNCHANGED <<mi, faults>>
    /\ UnchangedByMaps

\* run.py:370-408  both average maps are drawn and saved.
AverageMapsSaved ==
    /\ pc = "heatmaps"
    /\ ~TooFewForMaps(avg_forecast)
    /\ map_log' = map_log \o
          << MapEntry("temp_map", 0, Len(avg_forecast), "saved"),
             MapEntry("rain_map", 0, Len(avg_forecast), "saved") >>
    /\ mi' = 0
    /\ pc' = "daily_maps"
    /\ UNCHANGED faults
    /\ UnchangedByMaps

\* run.py:378-408, 437-438  drawing an average map raises: the outer handler
\* prints and the rest of the map stage, the daily maps included, is left.
AverageMapsRaise ==
    /\ pc = "heatmaps"
    /\ ~TooFewForMaps(avg_forecast)
    /\ faults < MaxFaults
    /\ faults' = faults + 1
    /\ \E failing \in {"temp_map", "rain_map"} :
         map_log' = map_log \o
            (IF failing = "temp_map"
             THEN << MapEntry("temp_map", 0, Len(avg_forecast), "failed") >>
             ELSE << MapEntry("temp_map", 0, Len(avg_forecast), "saved"),
                     MapEntry("rain_map", 0, Len(avg_forecast), "failed") >>)
    /\ pc' = "lookup"
    /\ UNCHANGED mi
    /\ UnchangedByMaps

\* run.py:415-420  the cities with a prediction at date index i
DailyPoints(listed, fc, coords, i) ==
    Cardinality({k \in 1..Len(fc) : listed[k] \in DOMAIN coords /\ i < Len(fc[k].temp)})

\* run.py:410  the daily loop moves on; after dates[:5], the lookup.
NextDailyMap ==
    /\ mi' = mi + 1
    /\ pc' = IF mi + 1 = NDailyMaps THEN "lookup" ELSE pc

\* Two points are taken to be enough.
TooFewForDailyTwo(n) == n < MinMapPoints - 1

\* run.py:421  too few points for the map of date index i
TooFewForDaily(n) == n < MinMapPoints

\* run.py:421-423  too few points: the map of this date is skipped.
DailyMapSkipped ==
    /\ pc = "daily_maps"
    /\ LET n == DailyPoints(cities_with_complete_data, forecast, city_coords, mi)
       IN  /\ TooFewForDaily(n)
           /\ map_log' = Append(map_log, MapEntry("daily", mi + 1, n, "skipped"))
    /\ NextDailyMap
    /\ UNCHANGED faults
    /\ UnchangedByMaps

\* run.py:424-434  the map of this date is drawn and saved.
DailyMapSaved ==
    /\ pc = "daily_maps"
    /\ LET n == DailyPoints(cities_with_complete_data, forecast, city_coords, mi)
       IN  /\ ~TooFewForDaily(n)
           /\ map_log' = Append(map_log, MapEntry("daily", mi + 1, n, "saved"))
    /\ NextDailyMap
    /\ UNCHANGED faults
    /\ UnchangedByMaps

\* run.py:424-436  drawing the map of this date raises: caught, next date.
DailyMapRaises ==
    /\ pc = "daily_maps"
    /\ faults < MaxFaults
    /\ faults' = faults + 1
    /\ LET n == DailyPoints(cities_with_complete_data, forecast, city_coords, mi)
       IN  /\ ~TooFewForDaily(n)
           /\ map_log' = Append(map_log, MapEntry("daily", mi + 1, n, "failed"))
    /\ NextDailyMap
    /\ UnchangedByMaps

\* ------------------------------------------------------------ the lookup

\* What the user may type at the prompt.
Inputs ==
    { Bogo, <<"B","O","G","O">>, <<" ","b","o","g","O"," ">>,
      <<"e","l"," ","n","i","d","o">>, Lower(Naga), <<"C","e","b","u">> }

ReportStem == <<"r","e","p","o","r","t","_">>

\* run.py:475, 494  report_<city>.<ext>
ReportFile(city, ext) == [name |-> ReportStem \o ReplaceBlanks(Lower(city)), ext |-> ext]

\* The data names are compared as they are, not lower-cased.
MatchingCitiesExact(df, target_lower) ==
    LET T(c) == c = target_lower IN SelectSeq(UniqueCities(df), T)

\* run.py:465-466  the data city an already lower-cased name stands for
MatchingCities(df, target_lower) ==
    LET T(c) == Lower(c) = target_lower IN SelectSeq(UniqueCities(df), T)

\* run.py:460-503  get_city_forecast on one typed line
GetCityForecast(typed, df, fdata) ==
    LET target_city == Strip(typed)
        target_city_lower == Lower(target_city)
        matches == MatchingCities(df, target_city_lower)
    IN  IF matches = <<>>
        THEN [status |-> "no_data", echoed |-> target_city, files |-> {}]
        ELSE LET actual_city_name == matches[1]
                 city_historical == RowsOf(df, actual_city_name)
                 F(r) == r.city = actual_city_name
                 city_forecast == SelectSeq(fdata, F)
             IN  IF fdata = <<>>
                 THEN [status |-> "key_error", city |-> actual_city_name,
                       historical |-> city_historical, files |-> {}]
                 ELSE IF city_forecast # <<>>
                 THEN [status |-> "report", city |-> actual_city_name,
                       historical |-> city_historical,
                       files |-> {ReportFile(actual_city_name, "pdf"),
                                  ReportFile(actual_city_name, "csv")},
                       rows |-> city_forecast]
                 ELSE [status |-> "no_forecast", city |-> actual_city_name,
                       historical |-> city_historical, files |-> {}]

\* run.py:506  the one prompt.  An empty forecast table has no 'city' column
\* and the script dies of the KeyError of run.py:472.
Lookup ==
    /\ pc = "lookup"
    /\ \E typed \in Inputs :
         lookup' = [typed |-> typed, result |-> GetCityForecast(typed, daily_data, forecast_data)]
    /\ pc' = IF lookup'.result.status = "key_error" THEN "died_key_error" ELSE "done"
    /\ UNCHANGED <<daily_data, scaler_features, scaler_targets, scaled, X, y, ci,
                   model, cities_with_complete_data, last_7_days, forecast, produced,
                   city_data, current_sequence, di, skips, errors, faults,
                   modelDown, forecast_data, city_coords, avg_forecast, mi, map_log>>

Next ==
    \/ FitScalers
    \/ SequenceCity
    \/ SequencesDone
    \/ Train
    \/ TrainRaises
    \/ SelectCities
    \/ EnterCity
    \/ StepOk
    \/ StepPredictRaises
    \/ StepInverseRaises
    \/ StepRescaleRaises
    \/ CitiesDone
    \/ AssembleForecast
    \/ ComputeAverages
    \/ HeatmapsSkipped
    \/ AverageMapsSaved
    \/ AverageMapsRaise
    \/ DailyMapSkipped
    \/ DailyMapSaved
    \/ DailyMapRaises
    \/ Lookup

Spec == Init /\ [][Next]_vars

\* ------------------------------------------------------------ what the claims speak of

\* The script is past create_sequences.
PastSequences == pc \notin {"create_sequences", "sequences"}

\* create_sequences has just returned, or raised.
SequencesReturned == pc \in {"train", "died_no_sequences"}

\* The forecast table has been assembled.
Assembled ==
    pc \in {"averages", "heatmaps", "daily_maps", "lookup", "done", "died_key_error"}

\* The daily records of a city, as a set, and the n-th of them by date.
RecordsOf(city) == {daily_data[i] : i \in {i \in 1..Len(daily_data) : daily_data[i].city = city}}
NthOf(recs, n) ==
    CHOOSE r \in recs : Cardinality({q \in recs : q.datetime < r.datetime}) = n - 1
NthRecord(city, n) == NthOf(RecordsOf(city), n)

\* The cities of the data, as a set.
DataCities == {daily_data[i].city : i \in 1..Len(daily_data)}

\* The number of windows a city with n records must give.
WindowCount(n) == IF n > seq_length THEN n - seq_length ELSE 0

\* The windows that the cities before the k-th of the data give together.
RECURSIVE WindowsBefore(_)
WindowsBefore(k) ==
    IF k <= 1 THEN 0
    ELSE WindowsBefore(k - 1)
         + WindowCount(Cardinality(RecordsOf(UniqueCities(daily_data)[k - 1])))

\* The exceptions caught for a city.
ErrorsOf(city) == {i \in 1..Len(errors) : errors[i].city = city}

\* The city was skipped at the head of its forecast loop.
SkippedForecast(city) == <<"forecast", city>> \in skips

\* The rows of the forecast table of a city, in table order.
TableRows(city) == LET T(r) == r.city = city IN SelectSeq(forecast_data, T)

\* The last seq_length records of a city: its observed window.
ObservedWindow(city) ==
    LET recs == RecordsOf(city)
        n == Cardinality(recs)
    IN  <<NthOf(recs, n - 4), NthOf(recs, n - 3), NthOf(recs, n - 2),
          NthOf(recs, n - 1), NthOf(recs, n)>>

\* The scaled auxiliary features every synthetic day must carry, for the
\* observed window w of its city.
FrozenAux(w) ==
    Transform(scaler_features,
              <<0, 0,
                (w[1].wind + w[2].wind + w[3].wind + w[4].wind + w[5].wind) \div 5,
                (w[1].clouds + w[2].clouds + w[3].clouds + w[4].clouds + w[5].clouds) \div 5,
                (w[1].visibility + w[2].visibility + w[3].visibility
                   + w[4].visibility + w[5].visibility) \div 5>>)

\* ------------------------------------------------------------ C1

\* C1: every recorded forecast point, in the per-city lists and in the
\* assembled table, has a temperature in [0,50] and a rainfall >= 0,
\* whatever the predictor returned and at every step of every city.
C1_ClampInvariant ==
    /\ \A k \in 1..Len(forecast) :
         /\ \A i \in 1..Len(forecast[k].temp) :
              forecast[k].temp[i] >= 0 /\ forecast[k].temp[i] <= 50
         /\ \A i \in 1..Len(forecast[k].rain) : forecast[k].rain[i] >= 0
    /\ \A i \in 1..Len(forecast_data) :
         /\ forecast_data[i].temp >= 0 /\ forecast_data[i].temp <= 50
         /\ forecast_data[i].rain >= 0

\* C1's case: a point was recorded from a raw output above 50 degrees and
\* below 0 mm (the window is unchanged by the failed re-scaling, so the raw
\* output is that of the point just recorded).
C1_Witness ==
    /\ pc = "step"
    /\ di > 0
    /\ Len(errors) > 0
    /\ errors[Len(errors)].date = di
    /\ Len(forecast[ci].temp) = di
    /\ PredictNextDayNoClamp(scaler_targets, model, current_sequence)[1] > 50
    /\ PredictNextDayNoClamp(scaler_targets, model, current_sequence)[2] < 0
    /\ forecast[ci].temp[di] = 50
    /\ forecast[ci].rain[di] = 0

\* ------------------------------------------------------------ C2

\* C2: once the table is assembled, a city that entered the forecast loop
\* has at most 30 rows, exactly 30 when no exception was caught for it (so
\* fewer than 30 only after a caught exception), and its i-th row is dated
\* April i: one row per date, dates rising by one day from April 1.
C2_ThirtyPoints ==
    Assembled =>
      \A k \in 1..Len(cities_with_complete_data) :
        LET city == cities_with_complete_data[k]
            rows == TableRows(city)
        IN  ~SkippedForecast(city) =>
              /\ Len(rows) <= NDates
              /\ (ErrorsOf(city) = {} => Len(rows) = NDates)
              /\ (Len(rows) < NDates => ErrorsOf(city) # {})
              /\ \A i \in 1..Len(rows) : rows[i].date = i

\* C2's case: in one assembled table a city without a caught exception has
\* its 30 rows and a city with caught exceptions has fewer.
C2_Witness ==
    /\ Assembled
    /\ \E k \in 1..Len(cities_with_complete_data) :
         /\ ~SkippedForecast(cities_with_complete_data[k])
         /\ ErrorsOf(cities_with_complete_data[k]) = {}
         /\ Len(TableRows(cities_with_complete_data[k])) = 30
    /\ \E k \in 1..Len(cities_with_complete_data) :
         /\ ErrorsOf(cities_with_complete_data[k]) # {}
         /\ Len(TableRows(cities_with_complete_data[k])) \in 1..29

\* ------------------------------------------------------------ C3

\* C3: when create_sequences returns or raises, a city with n records has given n - 5 windows
\* when n > 5 and none otherwise; its i-th window is the scaled features of
\* its records i..i+4 by date, paired with the scaled target of record i+5.
C3_SlidingWindows ==
    SequencesReturned =>
      LET names == UniqueCities(daily_data)
      IN  /\ Len(X) = WindowsBefore(Len(names) + 1)
          /\ Len(y) = Len(X)
          /\ \A k \in 1..Len(names) :
               LET n == Cardinality(RecordsOf(names[k]))
                   off == WindowsBefore(k)
               IN  \A i \in 1..WindowCount(n) :
                     /\ Len(X[off + i]) = seq_length
                     /\ \A j \in 1..seq_length :
                          X[off + i][j] =
                            Transform(scaler_features, Features(NthRecord(names[k], i + j - 1)))
                     /\ y[off + i] =
                          Transform(scaler_targets, Targets(NthRecord(names[k], i + seq_length)))

\* C3's case: a city with 10 records gave 5 windows and a city with exactly
\* 5 records gave none.
C3_Witness ==
    /\ pc = "train"
    /\ \E c \in DataCities : Cardinality(RecordsOf(c)) = 5
    /\ \E k \in 1..Len(UniqueCities(daily_data)) :
         /\ Cardinality(RecordsOf(UniqueCities(daily_data)[k])) = 10
         /\ WindowsBefore(k + 1) - WindowsBefore(k) = 5
    /\ Len(X) = 10

\* ------------------------------------------------------------ C4

\* C4: in the rolling window of the city being forecast, after a advances
\* the first 5 - a rows are the city's observed days a+1..5 and every later
\* row is synthetic, with wind, clouds and visibility equal to the scaled
\* means over the observed 5-day window, whatever was predicted.
C4_AuxFrozen ==
    pc = "step" =>
      LET city == cities_with_complete_data[ci]
          a == di - Cardinality(ErrorsOf(city))
          w == ObservedWindow(city)
          aux == FrozenAux(w)
      IN  /\ Len(current_sequence) = seq_length
          /\ \A j \in 1..seq_length :
               IF j + a <= seq_length
               THEN current_sequence[j] = Transform(scaler_features, Features(w[j + a]))
               ELSE \A q \in 3..5 : current_sequence[j][q] = aux[q]

\* C4's case: late in a city's loop, every row of the window is synthetic
\* and the predictions have changed along the way.
C4_Witness ==
    /\ pc = "step"
    /\ di = NDates - 1
    /\ ErrorsOf(cities_with_complete_data[ci]) = {}
    /\ forecast[ci].temp[1] # forecast[ci].temp[di]

\* ------------------------------------------------------------ C5

\* C5: whenever a forecast step ends in a caught exception (a diagnostic is
\* printed), no point is recorded, the rolling window is as before and the
\* date loop goes on to the next date.
C5_FailedStepSkipsDay ==
    [][Len(errors') > Len(errors) =>
         /\ forecast' = forecast
         /\ current_sequence' = current_sequence
         /\ di' = di + 1]_vars

\* ------------------------------------------------------------ C6

\* The forecast a city gets on its own: the predictor rolled n times from
\* the city's observed window.
RECURSIVE Roll(_, _, _, _)
Roll(window, rows, n, acc) ==
    IF n = 0 THEN acc
    ELSE LET p == PredictNextDay(scaler_targets, model, window)
         IN  Roll(Slide(window, NewRow(scaler_features, rows, p[1], p[2])), rows, n - 1,
                  [temp |-> Append(acc.temp, p[1]), rain |-> Append(acc.rain, p[2])])

OwnForecast(city) ==
    LET rows == ObservedWindow(city)
    IN  Roll(<<Transform(scaler_features, Features(rows[1])),
               Transform(scaler_features, Features(rows[2])),
               Transform(scaler_features, Features(rows[3])),
               Transform(scaler_features, Features(rows[4])),
               Transform(scaler_features, Features(rows[5]))>>,
             rows, NDates, [temp |-> <<>>, rain |-> <<>>])

C7_NoSequencesFatal ==
    /\ PastSequences =>
         /\ pc = "died_no_sequences"
              <=> (\A c \in DataCities : Cardinality(RecordsOf(c)) <= seq_length)
         /\ \A c \in DataCities :
              (<<"build", c>> \in skips) <=> (Cardinality(RecordsOf(c)) <= seq_length)
    /\ (\A c \in DataCities : Cardinality(RecordsOf(c)) <= seq_length) =>
         /\ model = "none"
         /\ cities_with_complete_data = <<>>
         /\ forecast = <<>>
         /\ forecast_data = <<>>
         /\ errors = <<>>
         /\ lookup = NoLookup

\* C7's case: two cities, each skipped for its 5 records, and the error.
C7_Witness ==
    /\ pc = "died_no_sequences"
    /\ X = <<>>
    /\ Cardinality(skips) = 2
    /\ \A c \in DataCities : Cardinality(RecordsOf(c)) = seq_length

\* ------------------------------------------------------------ C8

\* Two typed lines differ only in letter case.
SameButCase(a, b) == Len(a) = Len(b) /\ Lower(a) = Lower(b)

\* The data cities a typed line names, case aside.
NamedCities(typed) == {c \in DataCities : Lower(c) = Lower(Strip(typed))}

\* What a lookup gave, its echo of the typed line aside.
Outcome(r) ==
    IF r.status = "report"
    THEN <<r.status, r.city, r.historical, r.files, r.rows>>
    ELSE IF r.status = "no_data" THEN <<r.status, r.files>>
    ELSE <<r.status, r.city, r.historical, r.files>>

\* C8: the lookup made gives what any other line differing only in letter
\* case gives: the same city, records, report files and forecast rows; a
\* line that names a data city resolves to it with all its records; a line
\* that names none gives the "no data" message, no file and no error.
C8_LookupIgnoresCase ==
    lookup # NoLookup =>
      LET r == lookup.result
      IN  /\ \A other \in Inputs :
               SameButCase(other, lookup.typed) =>
                 Outcome(GetCityForecast(other, daily_data, forecast_data)) = Outcome(r)
          /\ NamedCities(lookup.typed) # {} =>
               /\ r.status # "no_data"
               /\ r.city \in NamedCities(lookup.typed)
               /\ \A i \in 1..Len(daily_data) :
                    daily_data[i].city = r.city =>
                      \E h \in 1..Len(r.historical) : r.historical[h] = daily_data[i]
               /\ r.status = "report" =>
                    /\ r.rows = TableRows(r.city)
                    /\ r.files = {ReportFile(r.city, "pdf"), ReportFile(r.city, "csv")}
          /\ NamedCities(lookup.typed) = {} =>
               /\ r.status = "no_data"
               /\ r.files = {}
               /\ pc = "done"

\* C8's case: a report was made for a line typed in capitals.
C8_Witness ==
    /\ lookup # NoLookup
    /\ lookup.typed = <<"B","O","G","O">>
    /\ lookup.result.status = "report"
    /\ lookup.result.city = Bogo
    /\ Len(lookup.result.rows) = NDates

\* ------------------------------------------------------------ C9

\* The scaler has been fitted once, and its minima and maxima are those of
\* the data's columns cols (a function from a record to its values).
FittedOnPool(scaler, cols(_), ncols) ==
    /\ scaler.n_fit = 1
    /\ Len(scaler.data_min) = ncols
    /\ Len(scaler.data_max) = ncols
    /\ \A i \in 1..Len(daily_data) :
         LET row == cols(daily_data[i])
         IN  \A j \in 1..ncols :
               scaler.data_min[j] <= row[j] /\ scaler.data_max[j] >= row[j]
    /\ \A j \in 1..ncols :
         /\ \E i \in 1..Len(daily_data) : scaler.data_min[j] = cols(daily_data[i])[j]
         /\ \E i \in 1..Len(daily_data) : scaler.data_max[j] = cols(daily_data[i])[j]

\* C9: neither scaler is ever fitted twice; as soon as anything was scaled
\* or the script is past create_sequences, each has been fitted exactly
\* once and holds the minima and maxima of the pooled data, so every
\* transform and inverse transform uses those same parameters.
C9_FitOnceBeforeUse ==
    /\ scaler_features.n_fit <= 1
    /\ scaler_targets.n_fit <= 1
    /\ (scaled \/ PastSequences \/ pc = "sequences") =>
         /\ FittedOnPool(scaler_features, Features, n_features)
         /\ FittedOnPool(scaler_targets, Targets, 2)

\* C9's case: windows were scaled in create_sequences and a second city's
\* forecast loop is scaling and inverse scaling.
C9_Witness ==
    /\ pc = "step"
    /\ ci = 2
    /\ di = 3
    /\ scaled
    /\ Len(X) > 0
    /\ Len(forecast[1].temp) = NDates
    /\ scaler_features.n_fit = 1
    /\ scaler_targets.n_fit = 1

\* ------------------------------------------------------------ C10

\* The listed cities that have a prediction at date index i (0-based).
CitiesWithPoint(i) ==
    {k \in 1..Len(forecast) : Len(forecast[k].temp) > i}

\* The maps attempted (drawn, saved or not).
Attempted == {i \in 1..Len(map_log) : map_log[i].outcome \in {"saved", "failed"}}

\* The map stage is over.
MapsOver == pc \in {"lookup", "done", "died_key_error"}

\* C10: an average map is attempted only with 3 or more cities that have a
\* forecast, a daily map only for one of the first 5 dates and with 3 or
\* more cities that have a prediction at its index; with fewer than 3
\* forecast cities the one diagnostic is all the map stage gives; a daily
\* map short of points is skipped; at most 5 daily maps; and the script
\* goes on to the lookup after any skip or failure.
C10_MapsNeedThreeCities ==
    /\ \A i \in Attempted :
         IF map_log[i].map = "daily"
         THEN /\ map_log[i].date \in 1..5
              /\ Cardinality(CitiesWithPoint(map_log[i].date - 1)) >= 3
         ELSE Cardinality(CitiesWithPoint(0)) >= 3
    /\ Cardinality({i \in 1..Len(map_log) : map_log[i].map = "daily"}) <= 5
    /\ \A i, j \in 1..Len(map_log) :
         (i < j /\ map_log[i].map = "daily" /\ map_log[j].map = "daily")
           => map_log[i].date < map_log[j].date
    /\ (pc = "daily_maps" \/ MapsOver) =>
         IF Cardinality(CitiesWithPoint(0)) < 3
         THEN map_log = << MapEntry("all", 0, Cardinality(CitiesWithPoint(0)), "skipped") >>
         ELSE /\ map_log # <<>>
              /\ \A d \in 1..5 :
                   Cardinality(CitiesWithPoint(d - 1)) < 3 =>
                     \A i \in 1..Len(map_log) :
                       (map_log[i].map = "daily" /\ map_log[i].date = d)
                         => map_log[i].outcome = "skipped"
    /\ map_log # <<>> => (pc = "daily_maps" \/ MapsOver)
    /\ (MapsOver /\ \A i \in 1..Len(map_log) : map_log[i].outcome = "saved") =>
         Cardinality({i \in 1..Len(map_log) : map_log[i].map = "daily"}) = 5

\* C10's case: the average maps and the first daily maps were drawn from 3
\* cities, a later one of the first 5 dates was skipped for its 2 points,
\* and the script is at the lookup.
C10_Witness ==
    /\ pc = "lookup"
    /\ \E i, j \in 1..Len(map_log) :
         /\ map_log[i].map = "daily" /\ map_log[i].outcome = "saved"
         /\ map_log[j].map = "daily" /\ map_log[j].outcome = "skipped"
         /\ Cardinality(CitiesWithPoint(map_log[j].date - 1)) = 2
    /\ map_log[1] = MapEntry("temp_map", 0, 3, "saved")

\* ------------------------------------------------------------ C11

\* A turn of the date loop of the city failed before the turn of date d.
FailedBefore(city, d) == \E i \in ErrorsOf(city) : errors[i].date < d

\* The rows of the k-th listed city are its recorded predictions in order,
\* dated 1, 2, ... without a gap.
PrefixLabelled(k) ==
    LET rows == TableRows(cities_with_complete_data[k])
    IN  /\ Len(rows) = Len(forecast[k].temp)
        /\ \A j \in 1..Len(rows) :
             /\ rows[j].date = j
             /\ rows[j].temp = forecast[k].temp[j]
             /\ rows[j].rain = forecast[k].rain[j]

\* C11: in the assembled table the k-th recorded prediction of a city is
\* labelled with the k-th date, so a city's dates are a gap-free prefix of
\* the range as long as its recorded predictions whichever turns failed,
\* and a row carries the date of the turn that produced it only when no
\* earlier turn of that city failed.
C11_DatesArePrefix ==
    Assembled =>
      \A k \in 1..Len(cities_with_complete_data) :
        /\ PrefixLabelled(k)
        /\ \A j \in 1..Len(produced[k]) :
             (produced[k][j] = j) => ~FailedBefore(cities_with_complete_data[k], produced[k][j])

\* The labelling alone: it holds whichever turns failed.
C11_PrefixOnly ==
    Assembled => \A k \in 1..Len(cities_with_complete_data) : PrefixLabelled(k)

\* The shift alone, for the turns that failed without recording: a row is
\* dated by its turn exactly when no earlier turn failed without recording.
C11_ShiftOnly ==
    Assembled =>
      \A k \in 1..Len(cities_with_complete_data) :
        \A j \in 1..Len(produced[k]) :
          (produced[k][j] = j) <=>
             ~\E i \in ErrorsOf(cities_with_complete_data[k]) :
                  /\ errors[i].date < produced[k][j]
                  /\ \A m \in 1..Len(produced[k]) : produced[k][m] # errors[i].date

\* ------------------------------------------------------------ C12

\* The latest date of the whole data.
LatestDate == MaxOf({daily_data[i].datetime : i \in 1..Len(daily_data)})

\* The city has at least seq_length records, one of them on each of the
\* seq_length days that end at the latest date of the data.
RecentAndComplete(city) ==
    /\ Cardinality(RecordsOf(city)) >= seq_length
    /\ \A d \in (LatestDate - (seq_length - 1))..LatestDate :
         \E r \in RecordsOf(city) : r.datetime = d

\* Some turn of the date loop ran for the city: it recorded a prediction or
\* printed an error.
EnteredLoop(city) ==
    \/ ErrorsOf(city) # {}
    \/ \E k \in 1..Len(produced) :
         cities_with_complete_data[k] = city /\ produced[k] # <<>>

\* The city has an entry in avg_forecast.
HasAverage(city) == \E i \in 1..Len(avg_forecast) : avg_forecast[i].city = city

\* The averages have been computed.
Averaged == pc \in {"heatmaps", "daily_maps", "lookup", "done", "died_key_error"}

\* C12: once the forecast loop is over, a city has entered it if and only
\* if it has at least seq_length records and one on each of the seq_length
\* days ending at the latest date of the whole data; any other city has its
\* "Skipping" diagnostic, no row in the forecast table and no average; a
\* city of exactly seq_length records, which gave no training window, has
\* entered the loop when its records are on those last days.
C12_WhoIsForecast ==
    (pc = "assemble" \/ Assembled) =>
      \A city \in DataCities :
        /\ EnteredLoop(city) <=> RecentAndComplete(city)
        /\ ~RecentAndComplete(city) =>
             /\ IF Cardinality(RecordsOf(city)) >= seq_length
                THEN SkippedForecast(city)
                ELSE <<"build", city>> \in skips
             /\ Assembled => TableRows(city) = <<>>
             /\ Averaged => ~HasAverage(city)
        /\ (Cardinality(RecordsOf(city)) = seq_length /\ RecentAndComplete(city)) =>
             /\ <<"build", city>> \in skips
             /\ EnteredLoop(city)

\* C12's case: at the lookup, a city of exactly seq_length records, all on
\* the last days, was skipped when the windows were built and has its 30
\* rows and its average; another city with as many records, but old ones,
\* was listed and skipped, and has neither.
C12_Witness ==
    /\ pc = "lookup"
    /\ \E c1, c2 \in DataCities :
         /\ Cardinality(RecordsOf(c1)) = seq_length
         /\ <<"build", c1>> \in skips
         /\ Len(TableRows(c1)) = NDates
         /\ HasAverage(c1)
         /\ Cardinality(RecordsOf(c2)) = seq_length
         /\ ~RecentAndComplete(c2)
         /\ SkippedForecast(c2)
         /\ TableRows(c2) = <<>>
         /\ ~HasAverage(c2)

====
